---- MODULE Spec2Model ----
(***************************************************************************)
(* A model of BusPyrate.py: the host-side driver that synchronises with a  *)
(* Bus Pirate over a serial line (detect, reset, enter binary mode, switch *)
(* binary sub-protocol).                                                    *)
(*                                                                          *)
(* Bytes and decoded characters are their ASCII codes; a byte string and a *)
(* decoded string are sequences of such codes.  The serial device is the   *)
(* environment: every read draws its reply from a finite set of concrete   *)
(* byte strings.  Every call made on the serial port is appended to `log`, *)
(* the calls made since the current top-level call began.                   *)
(***************************************************************************)
EXTENDS Integers, Sequences, FiniteSets, TLC

(***************************************************************************)
(* Bounds of the model.                                                     *)
(***************************************************************************)
\* the most lines one reset may read before the model stops following it
MaxLines == 4

(***************************************************************************)
(* BP_Mode                                                                  *)
(***************************************************************************)
\* the class attribute default `None` of bp_mode, bp_firmware, bp_bootloader
None == -1

text == 0
bbio == 1
spi == 2
i2c == 3
uart == 4
onewire == 5
raw == 6

CMD_BBIO == 0
CMD_SPI == 1
CMD_I2C == 2
CMD_UART == 3
CMD_ONEWIRE == 4
CMD_RAW == 5

CMD_GET_MODE == 1
CMD_RESET == 15

\* "BBIO1"
S_BBIO1 == <<66, 66, 73, 79, 49>>
\* "SPI1"
S_SPI1 == <<83, 80, 73, 49>>
\* "I2C1"
S_I2C1 == <<73, 50, 67, 49>>
\* "ART1"
S_ART1 == <<65, 82, 84, 49>>
\* "1W01"
S_1W01 == <<49, 87, 48, 49>>
\* "RAW1"
S_RAW1 == <<82, 65, 87, 49>>
\* ">"
S_PROMPT == <<62>>
\* "HiZ>"
S_HIZ == <<72, 105, 90, 62>>
\* "\r\n"
S_CRLF == <<13, 10>>
\* "#\n"
S_HASH_NL == <<35, 10>>

\* the keys of BP_Mode._mode_str
ModeStrKeys == {bbio, spi, i2c, uart, onewire, raw}

\* BP_Mode._mode_str
mode_str ==
    [m \in ModeStrKeys |->
        CASE m = bbio -> S_BBIO1
          [] m = spi -> S_SPI1
          [] m = i2c -> S_I2C1
          [] m = uart -> S_ART1
          [] m = onewire -> S_1W01
          [] m = raw -> S_RAW1]

\* BP_Mode.get_str(mode); a KeyError for a mode that is no key
get_str(mode) == mode_str[mode]

\* BP_Mode.get_cmd(mode)
\* get_cmd gone wrong: the ordinal itself as the selector
get_cmdOrdinal(mode) == mode

get_cmd(mode) == mode - 1

(***************************************************************************)
(* str / bytes methods the driver uses                                      *)
(***************************************************************************)
\* bytes.decode('ascii') succeeds exactly on bytes below 128 and then maps
\* each byte to the character of the same code; otherwise UnicodeDecodeError
DecodeOk(b) == \A i \in 1..Len(b) : b[i] < 128

\* bytes(list) raises ValueError unless every element is in range(0, 256)
BytesOk(l) == \A i \in 1..Len(l) : l[i] >= 0 /\ l[i] < 256

\* str.endswith(t)
EndsWith(s, t) ==
    /\ Len(s) >= Len(t)
    /\ SubSeq(s, Len(s) - Len(t) + 1, Len(s)) = t

\* str.startswith(t)
StartsWith(s, t) ==
    /\ Len(s) >= Len(t)
    /\ SubSeq(s, 1, Len(t)) = t

\* str.count(t): the number of non-overlapping occurrences of t in s,
\* scanning from the left (t is never empty here)
RECURSIVE CountFrom(_, _, _)
CountFrom(s, t, i) ==
    IF i + Len(t) - 1 > Len(s) THEN 0
    ELSE IF SubSeq(s, i, i + Len(t) - 1) = t
         THEN 1 + CountFrom(s, t, i + Len(t))
         ELSE CountFrom(s, t, i + 1)

Count(s, t) == CountFrom(s, t, 1)

\* the characters str.strip() removes from both ends of an ASCII string
IsSpace(c) == c \in {9, 10, 11, 12, 13, 28, 29, 30, 31, 32}

RECURSIVE LStrip(_)
LStrip(s) ==
    IF s # <<>> /\ IsSpace(Head(s)) THEN LStrip(Tail(s)) ELSE s

RECURSIVE RStrip(_)
RStrip(s) ==
    IF s # <<>> /\ IsSpace(s[Len(s)])
    THEN RStrip(SubSeq(s, 1, Len(s) - 1))
    ELSE s

\* str.strip()
Strip(s) == RStrip(LStrip(s))

(***************************************************************************)
(* _reset_parse: the two banner patterns                                    *)
(***************************************************************************)
\* "Bus Pirate v"
S_BUSPIRATE_V == <<66, 117, 115, 32, 80, 105, 114, 97, 116, 101, 32, 118>>
\* "Firmware v"
S_FIRMWARE_V == <<70, 105, 114, 109, 119, 97, 114, 101, 32, 118>>
\* " Bootloader v"
S_BOOTLOADER_V == <<32, 66, 111, 111, 116, 108, 111, 97, 100, 101, 114, 32, 118>>
\* "."
S_DOT == <<46>>

\* \d on an ASCII string
IsDigit(c) == c >= 48 /\ c <= 57

\* the length of the longest run of digits of s that starts at position i
RECURSIVE DigitRun(_, _)
DigitRun(s, i) ==
    IF i <= Len(s) /\ IsDigit(s[i]) THEN 1 + DigitRun(s, i + 1) ELSE 0

\* the length of the longest run of characters other than "\n" from i (.*)
RECURSIVE DotRun(_, _)
DotRun(s, i) ==
    IF i <= Len(s) /\ s[i] # 10 THEN 1 + DotRun(s, i + 1) ELSE 0

\* whether t occurs in s at position i
At(s, i, t) ==
    /\ i + Len(t) - 1 <= Len(s)
    /\ SubSeq(s, i, i + Len(t) - 1) = t

\* int() of a string of digits
RECURSIVE ToInt(_)
ToInt(d) ==
    IF d = <<>> THEN 0
    ELSE 10 * ToInt(SubSeq(d, 1, Len(d) - 1)) + (d[Len(d)] - 48)

\* re.match("Bus Pirate (v.*)", buf)
VersionMatch(b) == StartsWith(b, S_BUSPIRATE_V)

\* m.group(1) of that match
VersionGroup(b) ==
    SubSeq(b, Len(S_BUSPIRATE_V), Len(S_BUSPIRATE_V) + DotRun(b, Len(S_BUSPIRATE_V) + 1))

\* re.match("Firmware v(\d+)\.(\d+) Bootloader v(\d+)\.(\d+)", buf): the
\* start and the length of each of the four groups, or <<>> for no match.
\* Each \d+ is followed by a character that is no digit (or ends the
\* pattern), so only the longest run of digits can match.
FirmwareGroups(b) ==
    LET p1 == Len(S_FIRMWARE_V) + 1
        n1 == DigitRun(b, p1)
        p2 == p1 + n1 + 1
        n2 == DigitRun(b, p2)
        p3 == p2 + n2 + Len(S_BOOTLOADER_V)
        n3 == DigitRun(b, p3)
        p4 == p3 + n3 + 1
        n4 == DigitRun(b, p4)
    IN  IF /\ StartsWith(b, S_FIRMWARE_V)
           /\ n1 > 0 /\ At(b, p1 + n1, S_DOT)
           /\ n2 > 0 /\ At(b, p2 + n2, S_BOOTLOADER_V)
           /\ n3 > 0 /\ At(b, p3 + n3, S_DOT)
           /\ n4 > 0
        THEN <<<<p1, n1>>, <<p2, n2>>, <<p3, n3>>, <<p4, n4>>>>
        ELSE <<>>

\* int(m.group(k)) of that match
FirmwareInt(b, k) ==
    LET g == FirmwareGroups(b)[k]
    IN  ToInt(SubSeq(b, g[1], g[1] + g[2] - 1))

\* 100 * int(m.group(k)) + int(m.group(k + 1))
VersionNumber(b, k) == 100 * FirmwareInt(b, k) + FirmwareInt(b, k + 1)

\* buf.endswith("HiZ>")
IsBaselinePrompt(b) == EndsWith(b, S_HIZ)

(***************************************************************************)
(* The serial device: what a read may return                                *)
(***************************************************************************)
\* replies to readall() after a probe (a break, "\r\n" or the mode-entry
\* bytes): nothing (the timeout expired), the BinaryBase sentinel alone and
\* inside other bytes, the text prompt, another sentinel, and line noise
\* that is no ASCII
Replies ==
    { <<>>,
      S_BBIO1,
      <<120, 66, 66, 73, 79, 49, 120>>,          \* "xBBIO1x"
      <<13, 10, 62>>,                            \* "\r\n>"
      S_I2C1,
      <<255>> }

\* replies to readall() after the get-mode query: nothing, each sentinel, a
\* sentinel after and before other bytes, and line noise
ModeReplies ==
    { <<>>,
      S_BBIO1, S_SPI1, S_I2C1, S_ART1, S_1W01, S_RAW1,
      <<66, 66, 73, 79, 49, 73, 50, 67, 49>>,    \* "BBIO1I2C1"
      <<73, 50, 67, 49, 120>>,                   \* "I2C1x"
      <<255>> }

\* replies to readline(): nothing (the timeout expired), the baseline
\* prompt, the two banner lines, another line, and line noise
Lines ==
    { <<>>,
      S_HIZ,
      <<66, 117, 115, 32, 80, 105, 114, 97, 116, 101, 32, 118, 51, 13, 10>>,
                                                 \* "Bus Pirate v3\r\n"
      <<70, 105, 114, 109, 119, 97, 114, 101, 32, 118, 52, 46, 50, 32,
        66, 111, 111, 116, 108, 111, 97, 100, 101, 114, 32, 118, 52, 46, 49,
        13, 10>>,                                \* "Firmware v4.2 Bootloader v4.1\r\n"
      <<111, 107, 13, 10>>,                      \* "ok\r\n"
      <<255, 10>> }

\* the arguments set_mode is called with
Modes == {text, bbio, spi, i2c, uart, onewire, raw}

\* the speeds set_speed is called with: I2C.SPEED_5KHZ .. I2C.SPEED_400KHZ
Speeds == 0..3

\* I2C.CMD_SET_SPEED = 0x60
CMD_SET_SPEED == 96

(***************************************************************************)
(* Constants of the driver                                                  *)
(***************************************************************************)
\* tries = 5 in __init__
DetectTries == 5
\* tries = 20 in enter_binmode
BinmodeTries == 20
\* read timeouts, in tenths of a second
T_DETECT == 5
T_RESET == 2
\* T_BINMODE gone wrong: the timeout of the reset kept
T_BINMODE_Kept == T_RESET
T_BINMODE == 1

(***************************************************************************)
(* State                                                                    *)
(***************************************************************************)
VARIABLES
    pc,             \* where the driver is: "new", a step of a call, "idle"
                    \* (constructed, no call running) or "failed" (__init__ raised)
    op,             \* the top-level call running (or the last one run)
    mode,           \* set_mode's argument
    tries,          \* the local `tries` of __init__ / enter_binmode
    buf,            \* the last read that was decoded
    log,            \* the calls made on the serial port since op began
    result,         \* how op ended: "none" (running), "ok", or the exception
    ret,            \* what op returned: "none" (running or raised), "None", "True"
    bp_mode,
    bp_version,     \* <<>> stands for None
    bp_firmware,
    bp_bootloader,
    timeout,        \* the serial port's read timeout, None until set
    session,        \* whether an I2C object has been constructed
    entry_mode,     \* bp_mode when op began
    last_reset,     \* <<path, bp_mode>> when the last completed reset returned
                    \* (its loop had read a line ending in "HiZ>"), or <<>>
    class_attrs,    \* the attributes bp_version .. bp_mode of the class BusPyrate
    peer            \* a second instance of BusPyrate: the attributes bound in
                    \* it (own) and their values

vars == <<pc, op, mode, tries, buf, log, result, ret, bp_mode, bp_version,
          bp_firmware, bp_bootloader, timeout, session, entry_mode,
          last_reset, class_attrs, peer>>

identity == <<bp_version, bp_firmware, bp_bootloader>>

\* the attributes the class BusPyrate declares with the value None
Fields == {"bp_version", "bp_firmware", "bp_bootloader", "bp_mode"}

\* the class attributes as the class statement leaves them
ClassDefaults ==
    [bp_version |-> <<>>, bp_firmware |-> None, bp_bootloader |-> None,
     bp_mode |-> None]

\* a second instance in which no attribute is bound yet
PeerNew == [own |-> {}] @@ ClassDefaults

\* the second instances considered: a new one, one constructed from a banner
\* that held only the prompt (bp_mode bound, the identity fields not), and
\* one constructed from a full banner and switched to I2C
Peers ==
    { PeerNew,
      [own |-> {"bp_mode"}, bp_version |-> <<>>, bp_firmware |-> None,
       bp_bootloader |-> None, bp_mode |-> bbio],
      [own |-> Fields, bp_version |-> <<118, 51>>, bp_firmware |-> 402,
       bp_bootloader |-> 401, bp_mode |-> i2c] }

\* attribute lookup on an instance: the instance's binding, else the class's
GetAttr(obj, cls, f) == IF f \in obj.own THEN obj[f] ELSE cls[f]

\* ClassAttrs gone wrong: the assignments made through the class
ClassAttrsShared(cls, m, ver, fw, bl) ==
    [bp_version |-> ver, bp_firmware |-> fw, bp_bootloader |-> bl,
     bp_mode |-> m]

\* the class attributes after a step that leaves the fields of self as m,
\* ver, fw, bl: every assignment of the driver is `self.<field> = ...`, which
\* binds the attribute in the instance self
ClassAttrs(cls, m, ver, fw, bl) == cls

\* what a step of self does to the class and to the second instance
OtherObjects ==
    /\ class_attrs' =
          ClassAttrs(class_attrs, bp_mode', bp_version', bp_firmware',
                     bp_bootloader')
    /\ peer' = peer

\* one call on the serial port
Call(c, d) == [call |-> c, data |-> d]

\* the calls of write_bytes(bytes_)
WriteBytes(b) == <<Call("write", b), Call("flush", <<>>)>>

\* the calls of write_byte(byte_, True), without the final value read
WriteByteRead(b) ==
    <<Call("readall", <<>>)>> \o WriteBytes(<<b>>) \o <<Call("read", <<1>>)>>

\* how many calls named c the log l holds
NumCalls(l, c) == Cardinality({i \in 1..Len(l) : l[i].call = c})

InitSelf ==
    /\ pc = "new"
    /\ op = "__init__"
    /\ mode = bbio
    /\ tries = 0
    /\ buf = <<>>
    /\ log = <<>>
    /\ result = "none"
    /\ ret = "none"
    /\ bp_mode = None
    /\ bp_version = <<>>
    /\ bp_firmware = None
    /\ bp_bootloader = None
    /\ timeout = None
    /\ session = FALSE
    /\ entry_mode = None
    /\ last_reset = <<>>
    /\ class_attrs = ClassDefaults

\* one driver, beside a second instance that is new
Init == InitSelf /\ peer = PeerNew

(***************************************************************************)
(* Decisions the driver takes on what it has read                           *)
(***************************************************************************)
\* buf.count("BBIO1") > 0
IsBinSentinel(b) == Count(b, S_BBIO1) > 0

\* IsTextPrompt gone wrong: the prompt of the baseline wanted
IsTextPromptHiZ(b) == EndsWith(b, S_HIZ)

\* buf.endswith(">")
IsTextPrompt(b) == EndsWith(b, S_PROMPT)

\* Falsy gone wrong: only None is false
FalsyNone(m) == m = None

\* `not x` for a mode: None and BP_Mode.text (0) are false
Falsy(m) == m = None \/ m = text

\* verify_mode: the mode whose sentinel is wanted
WantedMode(m) == IF Falsy(m) THEN bp_mode ELSE m

\* VerifyMode gone wrong: the sentinel anywhere in the reply
VerifyModeContains(m, b) == Count(b, get_str(WantedMode(m))) > 0

\* verify_mode: buf.endswith(wanted)
VerifyMode(m, b) == EndsWith(b, get_str(WantedMode(m)))

\* reset: which of the two reset paths is taken
ResetPath(m) == IF m = text THEN "text" ELSE "bin"

\* ResetToken gone wrong: the binary token on either path
ResetTokenBinary(path) == WriteBytes(<<CMD_BBIO, CMD_RESET>>)

\* reset: the calls that send the reset token of a path
ResetToken(path) ==
    IF path = "text"
    THEN <<Call("write", S_HASH_NL)>>
    ELSE WriteBytes(<<CMD_BBIO, CMD_RESET>>)

\* _reset_parse: the identity fields after the line b
ParseVersion(b, old) == IF VersionMatch(b) THEN VersionGroup(b) ELSE old

ParseFirmware(b, old) ==
    IF FirmwareGroups(b) # <<>> THEN VersionNumber(b, 1) ELSE old

ParseBootloader(b, old) ==
    IF FirmwareGroups(b) # <<>> THEN VersionNumber(b, 3) ELSE old

\* where an exception raised in the running call ends: __init__ leaves no
\* object, a method leaves the driver as it is
Unwound == IF op = "__init__" THEN "failed" ELSE "idle"

\* where control goes when enter_binmode returns
AfterBinmode == IF op \in {"set_mode", "I2C"} THEN "sm_check" ELSE "idle"

\* ResetMode gone wrong: the reset recording the text baseline it leaves
ResetModeBaseline(m) == text

\* bp_mode after a reset that returns while m is recorded: reset,
\* _reset_from_binmode, _reset_from_textmode and _reset_parse assign the
\* identity fields only
ResetMode(m) == m

\* where control goes when reset returns
AfterReset == IF op = "__init__" THEN "enter_binmode" ELSE "idle"

\* AfterDetect gone wrong: straight on to enter_binmode
AfterDetectNoReset(m) == IF m = None THEN "failed" ELSE "enter_binmode"

\* __init__, after the detection loop: `if self.bp_mode is None: raise`
AfterDetect(m) == IF m = None THEN "failed" ELSE "reset"

(***************************************************************************)
(* __init__: detection                                                      *)
(***************************************************************************)
\* self._ser.setTimeout(0.5); tries = 5
InitStart ==
    /\ pc = "new"
    /\ pc' = "detect_break"
    /\ timeout' = T_DETECT
    /\ tries' = DetectTries
    /\ log' = Append(log, Call("setTimeout", <<T_DETECT>>))
    /\ UNCHANGED <<op, mode, buf, result, ret, bp_mode, identity, session,
                   last_reset, entry_mode>>
    /\ OtherObjects

\* sendBreak(); buf = readall().decode('ascii'); the BinMode test
DetectBreak(r) ==
    /\ pc = "detect_break"
    /\ tries > 0
    /\ log' = log \o <<Call("sendBreak", <<>>), Call("readall", <<>>)>>
    /\ IF ~DecodeOk(r)
       THEN /\ pc' = Unwound
            /\ result' = "UnicodeDecodeError"
            /\ UNCHANGED <<buf, bp_mode>>
       ELSE /\ buf' = r
            /\ IF IsBinSentinel(r)
               THEN bp_mode' = bbio /\ pc' = AfterDetect(bbio)
               ELSE bp_mode' = bp_mode /\ pc' = "detect_text"
            /\ UNCHANGED result
    /\ UNCHANGED <<op, mode, tries, ret, identity, timeout, session,
                   last_reset, entry_mode>>
    /\ OtherObjects

\* write(b"\r\n"); flush(); buf = readall().decode('ascii'); the TextMode
\* test; tries -= 1; and, when the loop ends, the check of bp_mode
DetectText(r) ==
    /\ pc = "detect_text"
    /\ log' = log \o WriteBytes(S_CRLF) \o <<Call("readall", <<>>)>>
    /\ IF ~DecodeOk(r)
       THEN /\ pc' = Unwound
            /\ result' = "UnicodeDecodeError"
            /\ UNCHANGED <<buf, bp_mode, tries>>
       ELSE /\ buf' = r
            /\ IF IsTextPrompt(r)
               THEN /\ bp_mode' = text
                    /\ pc' = AfterDetect(text)
                    /\ UNCHANGED <<tries, result>>
               ELSE /\ bp_mode' = bp_mode
                    /\ tries' = tries - 1
                    /\ pc' = IF tries - 1 > 0 THEN "detect_break"
                             ELSE AfterDetect(bp_mode)
                    /\ result' = IF tries - 1 > 0 \/ bp_mode # None
                                 THEN result ELSE "BusPyrateError"
    /\ UNCHANGED <<op, mode, ret, identity, timeout, session,
                   last_reset, entry_mode>>
    /\ OtherObjects

(***************************************************************************)
(* reset, _reset_from_binmode, _reset_from_textmode, _reset_parse           *)
(***************************************************************************)
\* reset(): send the reset token; _reset_parse: setTimeout(0.2)
Reset ==
    /\ pc = "reset"
    /\ log' = log \o ResetToken(ResetPath(bp_mode))
                  \o <<Call("setTimeout", <<T_RESET>>)>>
    /\ timeout' = T_RESET
    /\ pc' = "reset_parse"
    /\ UNCHANGED <<op, mode, tries, buf, result, ret, bp_mode, identity,
                   session, last_reset, entry_mode>>
    /\ OtherObjects

\* one turn of the loop of _reset_parse on the line l
ResetParse(l) ==
    /\ pc = "reset_parse"
    /\ NumCalls(log, "readline") < MaxLines
    /\ log' = Append(log, Call("readline", <<>>))
    /\ IF ~DecodeOk(l)
       THEN /\ pc' = Unwound
            /\ result' = "UnicodeDecodeError"
            /\ UNCHANGED <<buf, bp_mode, identity, last_reset, tries, ret>>
       ELSE LET b == Strip(l)
                done == IsBaselinePrompt(b)
            IN  /\ buf' = b
                /\ bp_version' = ParseVersion(b, bp_version)
                /\ bp_firmware' = ParseFirmware(b, bp_firmware)
                /\ bp_bootloader' = ParseBootloader(b, bp_bootloader)
                /\ bp_mode' = IF done THEN ResetMode(bp_mode) ELSE bp_mode
                /\ last_reset' = IF done THEN <<ResetPath(bp_mode), bp_mode'>>
                                 ELSE last_reset
                /\ pc' = IF done THEN AfterReset ELSE "reset_parse"
                /\ tries' = IF done /\ AfterReset = "enter_binmode"
                            THEN BinmodeTries ELSE tries
                /\ result' = IF done /\ AfterReset = "idle" THEN "ok" ELSE result
                /\ ret' = IF done /\ AfterReset = "idle" THEN "None" ELSE ret
    /\ UNCHANGED <<op, mode, timeout, session, entry_mode>>
    /\ OtherObjects

(***************************************************************************)
(* enter_binmode                                                            *)
(***************************************************************************)
\* one turn of the loop: write_bytes([0, 0]); buf = readall().decode()
EnterBinmode(r) ==
    /\ pc = "enter_binmode"
    /\ tries > 0
    /\ LET sent == log \o WriteBytes(<<CMD_BBIO, CMD_BBIO>>)
                       \o <<Call("readall", <<>>)>>
       IN  IF ~DecodeOk(r)
           THEN /\ log' = sent
                /\ pc' = Unwound
                /\ result' = "UnicodeDecodeError"
                /\ UNCHANGED <<buf, bp_mode, timeout, tries, ret>>
           ELSE IF IsBinSentinel(r)
           THEN /\ log' = Append(sent, Call("setTimeout", <<T_BINMODE>>))
                /\ buf' = r
                /\ timeout' = T_BINMODE
                /\ bp_mode' = bbio
                /\ pc' = AfterBinmode
                /\ tries' = 0
                /\ result' = IF AfterBinmode = "idle" THEN "ok" ELSE result
                /\ ret' = IF AfterBinmode # "idle" THEN ret
                          ELSE IF op = "__init__" THEN "None" ELSE "True"
           ELSE /\ log' = sent
                /\ buf' = r
                /\ tries' = tries - 1
                /\ pc' = IF tries - 1 > 0 THEN "enter_binmode" ELSE Unwound
                /\ result' = IF tries - 1 > 0 THEN result ELSE "BusPyrateError"
                /\ UNCHANGED <<bp_mode, timeout, ret>>
    /\ UNCHANGED <<op, mode, identity, session, last_reset, entry_mode>>
    /\ OtherObjects

(***************************************************************************)
(* set_mode, verify_mode, I2C.__init__                                      *)
(***************************************************************************)
\* set_mode: `if not self.bp_mode: self.enter_binmode()`
SetModeEntry ==
    /\ pc = "set_mode"
    /\ pc' = IF Falsy(bp_mode) THEN "enter_binmode" ELSE "sm_check"
    /\ tries' = IF Falsy(bp_mode) THEN BinmodeTries ELSE tries
    /\ UNCHANGED <<op, mode, buf, log, result, ret, bp_mode, identity,
                   timeout, session, last_reset, entry_mode>>
    /\ OtherObjects

\* NeedsSwitch gone wrong: a switch only from BinaryBase
NeedsSwitchFromBase(cur, m) == cur # m /\ cur = bbio

\* NeedsSwitch gone wrong: a switch whatever the mode recorded
NeedsSwitchAlways(cur, m) == TRUE

\* set_mode: whether a switch is needed at all
NeedsSwitch(cur, m) == cur # m

\* set_mode: `if self.bp_mode != mode:`; without a switch set_mode returns
SetModeCheck ==
    /\ pc = "sm_check"
    /\ IF NeedsSwitch(bp_mode, mode)
       THEN /\ pc' = "sm_bbio"
            /\ UNCHANGED <<result, ret, session>>
       ELSE /\ pc' = "idle"
            /\ result' = "ok"
            /\ ret' = IF op = "I2C" THEN "I2C" ELSE "None"
            /\ session' = (session \/ op = "I2C")
    /\ UNCHANGED <<op, mode, tries, buf, log, bp_mode, identity, timeout,
                   last_reset, entry_mode>>
    /\ OtherObjects

\* set_mode: write_byte(BP_Mode.CMD_BBIO, True); the value read is dropped
SetModeBbio ==
    /\ pc = "sm_bbio"
    /\ log' = log \o WriteByteRead(CMD_BBIO)
    /\ pc' = "sm_select"
    /\ UNCHANGED <<op, mode, tries, buf, result, ret, bp_mode, identity,
                   timeout, session, last_reset, entry_mode>>
    /\ OtherObjects

\* set_mode: write_byte(BP_Mode.get_cmd(mode), True); bytes([-1]) raises
SetModeSelect ==
    /\ pc = "sm_select"
    /\ IF BytesOk(<<get_cmd(mode)>>)
       THEN /\ log' = log \o WriteByteRead(get_cmd(mode))
            /\ pc' = "sm_verify"
            /\ UNCHANGED result
       ELSE /\ log' = Append(log, Call("readall", <<>>))
            /\ pc' = Unwound
            /\ result' = "ValueError"
    /\ UNCHANGED <<op, mode, tries, buf, ret, bp_mode, identity, timeout,
                   session, last_reset, entry_mode>>
    /\ OtherObjects

\* Commit gone wrong: the target whatever verify_mode gave
CommitUnverified(cur, m, v) == m

\* set_mode: what bp_mode is after verify_mode(mode) gave v
Commit(cur, m, v) == IF v THEN m ELSE cur

\* set_mode: `if self.verify_mode(mode): self.bp_mode = mode`, on the reply
\* r to the get-mode query; set_mode then returns None either way, and
\* I2C.__init__ returns the new object
SetModeVerify(r) ==
    /\ pc = "sm_verify"
    /\ log' = log \o <<Call("readall", <<>>)>> \o WriteBytes(<<CMD_GET_MODE>>)
                  \o <<Call("readall", <<>>)>>
    /\ IF ~DecodeOk(r)
       THEN /\ pc' = Unwound
            /\ result' = "UnicodeDecodeError"
            /\ UNCHANGED <<buf, bp_mode, ret, session>>
       ELSE /\ buf' = r
            /\ bp_mode' = Commit(bp_mode, mode, VerifyMode(mode, r))
            /\ pc' = "idle"
            /\ result' = "ok"
            /\ ret' = IF op = "I2C" THEN "I2C" ELSE "None"
            /\ session' = (session \/ op = "I2C")
    /\ UNCHANGED <<op, mode, tries, identity, timeout, last_reset, entry_mode>>
    /\ OtherObjects

(***************************************************************************)
(* The caller: calls made on a constructed driver                           *)
(***************************************************************************)
\* a call begins: nothing of the previous call's locals is left
Begin(o, m, p) ==
    /\ pc = "idle"
    /\ op' = o
    /\ mode' = m
    /\ pc' = p
    /\ tries' = IF p = "enter_binmode" THEN BinmodeTries ELSE 0
    /\ buf' = <<>>
    /\ log' = <<>>
    /\ result' = "none"
    /\ ret' = "none"
    /\ entry_mode' = bp_mode
    /\ UNCHANGED <<bp_mode, identity, timeout, session, last_reset>>
    /\ OtherObjects

\* bp.reset()
CallReset == Begin("reset", bbio, "reset")

\* bp.enter_binmode()
CallEnterBinmode == Begin("enter_binmode", bbio, "enter_binmode")

\* bp.set_mode(m)
CallSetMode(m) == Begin("set_mode", m, "set_mode")

\* I2C(bp): self._bp = buspirate; buspirate.set_mode(BP_Mode.i2c)
CallI2C == Begin("I2C", i2c, "set_mode")

\* i2c.set_speed(speed) on a constructed I2C object
CallSetSpeed(speed) == session /\ Begin("set_speed", mode, "set_speed")

\* I2C.set_speed: its first expression is the attribute self.write_byte, and
\* the class I2C defines only constants, __init__ and set_speed (write_byte
\* is a method of BusPyrate, reached as self._bp.write_byte): the lookup
\* raises AttributeError before the argument is evaluated or the port used
SetSpeed ==
    /\ pc = "set_speed"
    /\ pc' = "idle"
    /\ result' = "AttributeError"
    /\ UNCHANGED <<op, mode, tries, buf, log, ret, bp_mode, identity, timeout,
                   session, entry_mode, last_reset>>
    /\ OtherObjects

Next ==
    \/ InitStart
    \/ \E r \in Replies : DetectBreak(r)
    \/ \E r \in Replies : DetectText(r)
    \/ Reset
    \/ \E l \in Lines : ResetParse(l)
    \/ \E r \in Replies : EnterBinmode(r)
    \/ SetModeEntry
    \/ SetModeCheck
    \/ SetModeBbio
    \/ SetModeSelect
    \/ \E r \in ModeReplies : SetModeVerify(r)
    \/ CallReset
    \/ CallEnterBinmode
    \/ \E m \in Modes : CallSetMode(m)
    \/ CallI2C
    \/ \E speed \in Speeds : CallSetSpeed(speed)
    \/ SetSpeed

Spec == Init /\ [][Next]_vars

\* bp.bp_mode = m by the caller: bp_mode is a public attribute, and after
\* bp.reset() the device is at the text prompt while bp_mode says otherwise
AssignMode(m) ==
    /\ pc = "idle"
    /\ op' = "setattr"
    /\ bp_mode' = m
    /\ buf' = <<>>
    /\ log' = <<>>
    /\ result' = "ok"
    /\ ret' = "none"
    /\ entry_mode' = bp_mode
    /\ UNCHANGED <<pc, mode, tries, identity, timeout, session, last_reset>>
    /\ OtherObjects

\* the driver with a caller that also records Text, or nothing, by hand
NextText ==
    \/ Next
    \/ \E m \in {text, None} : AssignMode(m)

SpecText == Init /\ [][NextText]_vars

\* the driver beside any of the second instances
InitPeers == InitSelf /\ peer \in Peers

SpecPeers == InitPeers /\ [][Next]_vars

TypeOK ==
    /\ pc \in {"new", "detect_break", "detect_text", "reset", "reset_parse",
               "enter_binmode", "set_mode", "sm_check", "sm_bbio", "sm_select",
               "sm_verify", "set_speed", "idle", "failed"}
    /\ op \in {"__init__", "reset", "enter_binmode", "set_mode", "I2C",
               "set_speed", "setattr"}
    /\ mode \in Modes
    /\ tries \in 0..BinmodeTries
    /\ bp_mode \in Modes \cup {None}
    /\ timeout \in {None, T_DETECT, T_RESET, T_BINMODE}
    /\ session \in BOOLEAN

(***************************************************************************)
(* Vocabulary of the properties                                             *)
(***************************************************************************)
\* the binary sub-protocols
SubProtocols == {spi, i2c, uart, onewire, raw}

\* the data of the writes of a log, in order
RECURSIVE Writes(_)
Writes(l) ==
    IF l = <<>> THEN <<>>
    ELSE (IF Head(l).call = "write" THEN <<Head(l).data>> ELSE <<>>)
         \o Writes(Tail(l))

\* how many writes of the bytes d a log holds
NumWrites(l, d) ==
    Cardinality({i \in 1..Len(l) : l[i].call = "write" /\ l[i].data = d})

\* the calls a step adds to the log (the log is emptied when a call begins)
Added == IF Len(log') >= Len(log) THEN SubSeq(log', Len(log) + 1, Len(log')) ELSE log'

\* whether a log ends with a call named c
EndsWithCall(l, c) == l # <<>> /\ l[Len(l)].call = c

\* a set_mode (of its own or of I2C.__init__) is the call running or last run
InSetMode == op \in {"set_mode", "I2C"}

\* the call has returned or raised
Ended == pc \in {"idle", "failed"} /\ result # "none"

\* the call raised
Raised == Ended /\ result # "ok"

C2_EmptyLineEndsReset ==
    (EndsWithCall(log, "readline") /\ buf = <<>>) =>
        (pc # "reset_parse" /\ Raised)

(***************************************************************************)
(* C3                                                                       *)
(***************************************************************************)
\* C3: when construction fails with no probe ever matched (bp_mode is still
\* unset), it has sent exactly 5 breaks and written "\r\n" exactly 5 times
\* and nothing else (no reset token, no mode-entry bytes).
C3_DetectBudget ==
    (op = "__init__" /\ pc = "failed" /\ bp_mode = None) =>
        /\ NumCalls(log, "sendBreak") = 5
        /\ NumWrites(log, <<13, 10>>) = 5
        /\ Len(Writes(log)) = 5

\* C3, for replies that decode: when construction fails with no probe ever
\* matched and with the driver's own error, it has sent exactly 5 breaks and written "\r\n" exactly 5 times
\* and nothing else.
C3_DetectBudgetDecoded ==
    (op = "__init__" /\ pc = "failed" /\ bp_mode = None
        /\ result = "BusPyrateError") =>
        /\ NumCalls(log, "sendBreak") = 5
        /\ NumWrites(log, <<13, 10>>) = 5
        /\ Len(Writes(log)) = 5

(***************************************************************************)
(* C4                                                                       *)
(***************************************************************************)
\* C4: an enter_binmode that fails has written the mode-entry bytes (0, 0)
\* exactly 20 times and nothing else and left bp_mode as it was; one that
\* returns has written them between 1 and 20 times, its last read held
\* "BBIO1" and bp_mode is BinaryBase.
C4_BinmodeBudget ==
    /\ (op = "enter_binmode" /\ Raised) =>
        /\ NumWrites(log, <<0, 0>>) = 20
        /\ Len(Writes(log)) = 20
        /\ bp_mode = entry_mode
    /\ (op = "enter_binmode" /\ Ended /\ ~Raised) =>
        /\ NumWrites(log, <<0, 0>>) \in 1..20
        /\ Len(Writes(log)) = NumWrites(log, <<0, 0>>)
        /\ Count(buf, S_BBIO1) > 0
        /\ bp_mode = bbio

\* C4, for replies that decode: an enter_binmode that ends with the
\* driver's own error has written the mode-entry bytes exactly 20 times and
\* nothing else and left bp_mode as it was.
C4_BinmodeBudgetDecoded ==
    (op = "enter_binmode" /\ Ended /\ result = "BusPyrateError") =>
        /\ NumWrites(log, <<0, 0>>) = 20
        /\ Len(Writes(log)) = 20
        /\ bp_mode = entry_mode

C6_UnverifiedSwitchSurfaced ==
    /\ (op = "set_mode" /\ pc = "idle" /\ result = "ok" /\ bp_mode # mode) =>
        ret # "None"
    /\ (op = "I2C" /\ Ended /\ bp_mode # i2c) => (Raised /\ ~session)

(***************************************************************************)
(* C7                                                                       *)
(***************************************************************************)
\* the step of construction a call on the serial port belongs to: 1 detect,
\* 2 reset, 3 enter binary mode, 0 for a call all three make
Phase(e) ==
    CASE e.call = "sendBreak" -> 1
      [] e.call = "write" /\ e.data = <<13, 10>> -> 1
      [] e.call = "setTimeout" /\ e.data = <<5>> -> 1
      [] e.call = "write" /\ e.data \in {<<35, 10>>, <<0, 15>>} -> 2
      [] e.call = "setTimeout" /\ e.data = <<2>> -> 2
      [] e.call = "readline" -> 2
      [] e.call = "write" /\ e.data = <<0, 0>> -> 3
      [] e.call = "setTimeout" /\ e.data = <<1>> -> 3
      [] OTHER -> 0

\* whether the log holds a call of phase k
HasPhase(l, k) == \E i \in 1..Len(l) : Phase(l[i]) = k

\* C7: during and after construction, the calls of detect come before those
\* of reset, which come before those of enter_binmode; reset has begun only
\* with a personality detected, enter_binmode only after the reset loop has
\* read a line ending in "HiZ>"; and when construction has returned, all
\* three ran, bp_mode is BinaryBase and the last read held "BBIO1".
C7_ConstructionOrder ==
    op = "__init__" =>
        /\ \A i, j \in 1..Len(log) :
              (i < j /\ Phase(log[i]) # 0 /\ Phase(log[j]) # 0) =>
                  Phase(log[i]) <= Phase(log[j])
        /\ HasPhase(log, 2) => (HasPhase(log, 1) /\ bp_mode \in {text, bbio})
        /\ HasPhase(log, 3) => (HasPhase(log, 2) /\ last_reset # <<>>)
        /\ pc = "idle" =>
              /\ result = "ok"
              /\ HasPhase(log, 3)
              /\ EndsWithCall(log, "setTimeout")
              /\ Count(buf, S_BBIO1) > 0
              /\ bp_mode = bbio

\* C7 witness: construction has returned, having detected Text, reset by
\* the text token and entered binary mode on its third attempt
C7_Witness ==
    /\ op = "__init__" /\ pc = "idle"
    /\ last_reset = <<"text", text>>
    /\ NumWrites(log, <<0, 0>>) = 3
    /\ bp_mode = bbio

(***************************************************************************)
(* C8                                                                       *)
(***************************************************************************)
\* C8: bp_mode is never assigned speculatively: every step that changes
\* bp_mode has read from the serial port, has written nothing after that
\* read, and what it read matches the value assigned: it holds "BBIO1" for
\* BinaryBase, ends with ">" for Text, and ends with the sentinel of the
\* sub-protocol for a sub-protocol.
C8_NoSpeculativeAssign ==
    [][ bp_mode' # bp_mode =>
          /\ \E i \in 1..Len(Added) :
                /\ Added[i].call = "readall"
                /\ \A j \in (i + 1)..Len(Added) : Added[j].call = "setTimeout"
          /\ CASE bp_mode' = bbio -> Count(buf', S_BBIO1) > 0
               [] bp_mode' = text -> EndsWith(buf', <<62>>)
               [] bp_mode' \in SubProtocols -> EndsWith(buf', mode_str[bp_mode'])
               [] OTHER -> FALSE
      ]_vars

\* C8 witness: a set_mode(UART) begun in BinaryBase has committed UART on a
\* reply ending with "ART1"
C8_Witness ==
    /\ op = "set_mode" /\ pc = "idle"
    /\ entry_mode = bbio /\ mode = uart /\ bp_mode = uart
    /\ EndsWith(buf, S_ART1)

(***************************************************************************)
(* C9                                                                       *)
(***************************************************************************)
\* C9: reset ends in the same baseline whichever token path it took: when a
\* reset returns it has just read a line ending in "HiZ>", and the
\* personality recorded is the one recorded when the reset before it
\* returned.
C9_ResetSameBaseline ==
    [][ (pc = "reset_parse" /\ pc' \in {"enter_binmode", "idle"}
            /\ result' \in {"none", "ok"}) =>
          /\ EndsWith(buf', <<72, 105, 90, 62>>)
          /\ last_reset # <<>> => bp_mode' = last_reset[2]
      ]_vars

(***************************************************************************)
(* C10                                                                      *)
(***************************************************************************)
\* C10: reset begins by writing its one reset token, chosen by bp_mode,
\* before any read: "#\n" when bp_mode is Text, the bytes (0x00, 0x0F) when
\* it is BinaryBase; the read loop that follows writes nothing.
C10_ResetToken ==
    [][ /\ (pc = "reset" /\ bp_mode = text) =>
              /\ Added # <<>> /\ Added[1] = Call("write", <<35, 10>>)
              /\ Writes(Added) = << <<35, 10>> >>
              /\ NumCalls(Added, "readline") = 0
        /\ (pc = "reset" /\ bp_mode = bbio) =>
              /\ Added # <<>> /\ Added[1] = Call("write", <<0, 15>>)
              /\ Writes(Added) = << <<0, 15>> >>
              /\ NumCalls(Added, "readline") = 0
        /\ pc = "reset_parse" => Writes(Added) = <<>>
      ]_vars

\* C10 witness: construction reset by the text token, and a later reset() in
\* BinaryBase has written (0x00, 0x0F) and is reading lines
C10_Witness ==
    /\ op = "reset" /\ pc = "reset_parse"
    /\ last_reset = <<"text", text>>
    /\ bp_mode = bbio
    /\ Writes(log) = << <<0, 15>> >>
    /\ NumCalls(log, "readline") > 0

(***************************************************************************)
(* C11                                                                      *)
(***************************************************************************)
\* C11: set_mode(target) called with bp_mode already the target is a no-op:
\* no step of it calls the serial port or changes bp_mode, the identity
\* fields or the read timeout, and it returns.
C11_SetModeNoOp ==
    [][ (InSetMode /\ pc \in {"set_mode", "sm_check"} /\ entry_mode = mode) =>
          /\ log = <<>> /\ log' = <<>>
          /\ bp_mode = mode
          /\ UNCHANGED <<bp_mode, bp_version, bp_firmware, bp_bootloader,
                         timeout>>
          /\ pc' \in {"sm_check", "idle"}
          /\ pc' = "idle" => result' = "ok"
      ]_vars

\* C11 witness: a set_mode(SPI) begun with bp_mode = SPI has returned
\* without a call on the serial port
C11_Witness ==
    /\ op = "set_mode" /\ pc = "idle" /\ result = "ok"
    /\ entry_mode = spi /\ mode = spi /\ bp_mode = spi
    /\ log = <<>>

(***************************************************************************)
(* C12                                                                      *)
(***************************************************************************)
\* C12: a set_speed(level), level in 0..3, that has ended has written the one
\* byte CMD_SET_SPEED | level and read the one-byte answer, and has either
\* returned or raised the protocol error BusPyrateError (the first when the
\* answer was 0x01, the second otherwise, with no second write).
C12_SetSpeedAnswer ==
    (op = "set_speed" /\ Ended) =>
        /\ \E speed \in Speeds : Writes(log) = << <<CMD_SET_SPEED + speed>> >>
        /\ NumCalls(log, "read") = 1
        /\ result \in {"ok", "BusPyrateError"}

\* what set_speed does do: it raises AttributeError, with no call on the
\* serial port and no change of the driver
C12_SetSpeedRaises ==
    (op = "set_speed" /\ Ended) =>
        /\ result = "AttributeError"
        /\ log = <<>>
        /\ bp_mode = entry_mode

(***************************************************************************)
(* C13                                                                      *)
(***************************************************************************)
\* the CMD_ constant of each binary personality
CmdOf(m) ==
    CASE m = bbio -> CMD_BBIO
      [] m = spi -> CMD_SPI
      [] m = i2c -> CMD_I2C
      [] m = uart -> CMD_UART
      [] m = onewire -> CMD_ONEWIRE
      [] m = raw -> CMD_RAW

\* C13: a set_mode that switches (bp_mode at entry differs from the target)
\* and has returned made exactly three writes, in order 0x00, the selector of
\* the target, 0x01, each one a single byte followed by a read before the
\* next write; the selector get_cmd(target) is the target's ordinal minus
\* one and is the CMD_ constant of the target, for every binary personality.
C13_SwitchWrites ==
    /\ \A m \in ModeStrKeys : get_cmd(m) = m - 1 /\ get_cmd(m) = CmdOf(m)
    /\ (InSetMode /\ Ended /\ result = "ok" /\ entry_mode # mode) =>
          log = << Call("readall", <<>>), Call("write", <<CMD_BBIO>>),
                   Call("flush", <<>>), Call("read", <<1>>),
                   Call("readall", <<>>), Call("write", <<CmdOf(mode)>>),
                   Call("flush", <<>>), Call("read", <<1>>),
                   Call("readall", <<>>), Call("write", <<CMD_GET_MODE>>),
                   Call("flush", <<>>), Call("readall", <<>>) >>

\* C13 witness: a switch from BinaryBase to RawWire has returned after the
\* writes 0x00, 0x05, 0x01
C13_Witness ==
    /\ op = "set_mode" /\ pc = "idle" /\ result = "ok"
    /\ entry_mode = bbio /\ mode = raw
    /\ Writes(log) = << <<0>>, <<5>>, <<1>> >>

(***************************************************************************)
(* C14                                                                      *)
(***************************************************************************)
\* bp_mode, bp_version, bp_firmware, bp_bootloader as read through the
\* second instance
PeerView ==
    << GetAttr(peer, class_attrs, "bp_mode"),
       GetAttr(peer, class_attrs, "bp_version"),
       GetAttr(peer, class_attrs, "bp_firmware"),
       GetAttr(peer, class_attrs, "bp_bootloader") >>

\* C14: no step of an operation on one driver instance (construction, reset,
\* enter_binmode, set_mode, the I2C session) changes bp_mode, bp_version,
\* bp_firmware or bp_bootloader as read through another instance.
C14_InstancesIndependent == [][PeerView' = PeerView]_vars

\* C14 witness: the driver has bound its own personality and identity (I2C,
\* "v3", 402, 401) while a second instance that has bound nothing still
\* reads the class's None in all four
C14_Witness ==
    /\ pc = "idle" /\ bp_mode = i2c
    /\ bp_version = <<118, 51>> /\ bp_firmware = 402 /\ bp_bootloader = 401
    /\ peer.own = {}
    /\ PeerView = <<None, <<>>, None, None>>

(***************************************************************************)
(* C15                                                                      *)
(***************************************************************************)
\* C15: the read timeout (in tenths of a second) is 5 during detection and
\* 2 in the read loop of a reset; a step changes it only by starting
\* construction (to 5), by starting a reset (to 2) or as the enter_binmode
\* attempt whose read held "BBIO1" (to 1), so an enter_binmode that fails
\* leaves it; no step of set_mode, of the I2C constructor or of set_speed
\* changes it; it is 1 when construction returns, and from 1 it changes only
\* by a reset being started.
C15_Timeouts ==
    [][ /\ pc' \in {"detect_break", "detect_text"} => timeout' = 5
        /\ pc' = "reset_parse" => timeout' = 2
        /\ timeout' # timeout =>
              \/ pc = "new" /\ timeout' = 5
              \/ pc = "reset" /\ timeout' = 2
              \/ /\ pc = "enter_binmode" /\ timeout' = 1
                 /\ Count(buf', S_BBIO1) > 0 /\ bp_mode' = bbio
        /\ (pc = "enter_binmode" /\ result' \notin {"none", "ok"}) =>
              timeout' = timeout
        /\ (InSetMode \/ op = "set_speed") /\ pc # "idle" => timeout' = timeout
        /\ (op = "__init__" /\ pc # "idle" /\ pc' = "idle") => timeout' = 1
        /\ (timeout = 1 /\ timeout' # 1) => pc = "reset"
      ]_vars

\* C15 witness: an enter_binmode called after a reset has failed, and the
\* timeout is still that of the reset
C15_Witness ==
    /\ op = "enter_binmode" /\ pc = "idle" /\ result = "BusPyrateError"
    /\ timeout = 2

(***************************************************************************)
(* C16                                                                      *)
(***************************************************************************)
\* "Bus Pirate v3"
L_VERSION ==
    <<66, 117, 115, 32, 80, 105, 114, 97, 116, 101, 32, 118, 51>>

\* "Firmware v4.2 Bootloader v4.1"
L_FIRMWARE ==
    <<70, 105, 114, 109, 119, 97, 114, 101, 32, 118, 52, 46, 50, 32,
    66, 111, 111, 116, 108, 111, 97, 100, 101, 114, 32, 118, 52, 46,
    49>>

\* what a turn of the reset read loop that decoded its line does to the
\* identity fields
BannerParsed ==
    /\ buf' = L_VERSION =>
          bp_version' = <<118, 51>> /\ UNCHANGED <<bp_firmware, bp_bootloader>>
    /\ buf' = L_FIRMWARE =>
          bp_firmware' = 402 /\ bp_bootloader' = 401 /\ UNCHANGED bp_version
    /\ buf' \notin {L_VERSION, L_FIRMWARE} => UNCHANGED identity

\* C16: a turn of the reset read loop on the line "Bus Pirate v3" sets
\* bp_version = "v3", on "Firmware v4.2 Bootloader v4.1" sets bp_firmware =
\* 100*4+2 and bp_bootloader = 100*4+1, and on a line matching neither
\* pattern leaves the three fields unchanged; no line read makes the reset
\* fail.
C16_BannerParsing ==
    [][ (pc = "reset_parse" /\ log' # log) =>
            /\ result' \in {"none", "ok"}
            /\ BannerParsed
      ]_vars

\* the parsing itself is as C16 says, on every line that decodes
C16_BannerParsingDecoded ==
    [][ (pc = "reset_parse" /\ log' # log /\ result' \in {"none", "ok"}) =>
            BannerParsed
      ]_vars

(***************************************************************************)
(* C17                                                                      *)
(***************************************************************************)
\* the order and the outcome of the two probes of a detection attempt
ProbeOrder ==
    /\ (pc = "detect_break" /\ log' # log) =>
          /\ Added = <<Call("sendBreak", <<>>), Call("readall", <<>>)>>
          /\ bp_mode' # None =>
                /\ Count(buf', S_BBIO1) > 0
                /\ bp_mode' = bbio /\ pc' = "reset"
    /\ (pc = "detect_text" /\ log' # log) =>
          /\ Count(buf, S_BBIO1) = 0
          /\ Added = <<Call("write", S_CRLF), Call("flush", <<>>),
                       Call("readall", <<>>)>>
          /\ bp_mode' # None =>
                /\ EndsWith(buf', S_PROMPT)
                /\ bp_mode' = text /\ pc' = "reset"
    /\ bp_mode' = text /\ bp_mode # text => pc = "detect_text"

\* an attempt in which neither probe matched goes on from the break probe to
\* the newline probe and there consumes one of the tries: the next attempt
\* starts, or construction fails with BusPyrateError when none is left
TryConsumed ==
    (pc \in {"detect_break", "detect_text"} /\ log' # log /\ bp_mode' = None)
    =>  /\ pc = "detect_break" => pc' = "detect_text" /\ tries' = tries
        /\ pc = "detect_text" =>
              /\ tries' = tries - 1
              /\ IF tries' > 0
                 THEN pc' = "detect_break" /\ result' = "none"
                 ELSE pc' = "failed" /\ result' = "BusPyrateError"

\* C17: in each detection attempt the break probe comes first and wins: a
\* break reply holding "BBIO1" records BinaryBase and ends detection without
\* "\r\n" being written; Text is recorded only by the newline probe of an
\* attempt whose break reply held no "BBIO1" and whose own reply ends with
\* ">"; an attempt in which neither matches leaves bp_mode unset and
\* consumes one of the 5 tries.
C17_ProbeOrder == [][ProbeOrder /\ TryConsumed]_vars

\* the order of the probes is as C17 says on every reply, and a try is
\* consumed by every attempt whose replies decode
C17_ProbeOrderDecoded ==
    [][ProbeOrder /\ (result' # "UnicodeDecodeError" => TryConsumed)]_vars

(***************************************************************************)
(* C18                                                                      *)
(***************************************************************************)
\* The device of the scenario: at the text prompt when the driver is
\* constructed.  It answers nothing to the break and "\r\n>" to the newline
\* probe,
ScenarioBreak == DetectBreak(<<>>)

ScenarioNewline == DetectText(<<13, 10, 62>>)

\* sends after the reset token a banner of lines that decode, the last of
\* which (at most the MaxLines-th) ends in "HiZ>",
ScenarioBanner ==
    \E l \in Lines :
        /\ DecodeOk(l) /\ l # <<>>
        /\ NumCalls(log, "readline") = MaxLines - 1 => l = S_HIZ
        /\ ResetParse(l)

\* and answers "BBIO1" to one of the mode-entry writes, the 20th at the
\* latest, and nothing to those before
ScenarioBinmode ==
    \E r \in {<<>>, S_BBIO1} :
        /\ tries = 1 => r = S_BBIO1
        /\ EnterBinmode(r)

NextScenario ==
    \/ InitStart
    \/ ScenarioBreak
    \/ ScenarioNewline
    \/ Reset
    \/ ScenarioBanner
    \/ ScenarioBinmode

\* the constructor runs on: a step that can be taken is taken
SpecScenario ==
    Init /\ [][NextScenario]_vars /\ WF_vars(NextScenario)

\* C18: on the device of the scenario construction succeeds: nothing raises,
\* Text is detected in the first attempt (one break, one newline probe), the
\* reset runs with Text recorded and sends the text token "#\n" and never
\* the binary one, and construction returns, with bp_mode = BinaryBase set
\* by a read holding "BBIO1".
C18_TextScenario ==
    /\ [](pc # "failed" /\ result \in {"none", "ok"})
    /\ [](pc \in {"reset", "reset_parse", "enter_binmode", "idle"} =>
            /\ NumCalls(log, "sendBreak") = 1
            /\ NumWrites(log, S_CRLF) = 1)
    /\ [](pc \in {"reset", "reset_parse"} => bp_mode = text)
    /\ [](pc \in {"reset_parse", "enter_binmode", "idle"} =>
            /\ NumWrites(log, S_HASH_NL) = 1
            /\ NumWrites(log, <<CMD_BBIO, CMD_RESET>>) = 0
            /\ last_reset \in {<<>>, <<"text", text>>})
    /\ [](pc = "idle" =>
            /\ result = "ok" /\ bp_mode = bbio /\ Count(buf, S_BBIO1) > 0
            /\ last_reset = <<"text", text>>)
    /\ <>(pc = "idle")

\* C18 witness: construction has returned on the device of the scenario,
\* which answered "BBIO1" to the third mode-entry write
C18_Witness ==
    /\ op = "__init__" /\ pc = "idle" /\ result = "ok" /\ bp_mode = bbio
    /\ last_reset = <<"text", text>>
    /\ NumCalls(log, "sendBreak") = 1
    /\ NumWrites(log, <<CMD_BBIO, CMD_BBIO>>) = 3

(***************************************************************************)
(* C19                                                                      *)
(***************************************************************************)
\* C19: no step of a reset changes bp_mode, so a reset that has ended
\* (returned or raised) records what it recorded at entry; a set_mode(P)
\* begun after a reset that returned while the sub-protocol P was recorded
\* starts with P recorded, and no step of it calls the serial port or
\* changes bp_mode.
C19_ResetKeepsMode ==
    [][ /\ pc \in {"reset", "reset_parse"} => bp_mode' = bp_mode
        /\ (op' = "reset" /\ pc' = "idle") => bp_mode' = entry_mode'
        /\ ( /\ op = "reset" /\ pc = "idle" /\ result = "ok"
             /\ entry_mode \in SubProtocols
             /\ InSetMode' /\ mode' = entry_mode ) =>
              /\ entry_mode' = mode' /\ bp_mode' = mode'
              /\ last_reset' = <<"bin", mode'>>
        /\ ( /\ InSetMode /\ pc # "idle"
             /\ entry_mode = mode /\ last_reset = <<"bin", mode>> ) =>
              log' = <<>> /\ bp_mode' = mode /\ pc' \in {"sm_check", "idle"}
      ]_vars

\* C19 witness: a reset returned while I2C was recorded, and the set_mode(I2C)
\* after it has returned without a call on the serial port
C19_Witness ==
    /\ op = "set_mode" /\ pc = "idle" /\ result = "ok"
    /\ mode = i2c /\ entry_mode = i2c /\ bp_mode = i2c
    /\ last_reset = <<"bin", i2c>>
    /\ log = <<>>

(***************************************************************************)
(* C20                                                                      *)
(***************************************************************************)
\* the log l holds only calls of enter_binmode: every write is (0x00, 0x00)
\* and nothing is read by read(1)
OnlyEntryWrites(l) ==
    \A i \in 1..Len(l) :
        /\ l[i].call \in {"write", "flush", "readall", "setTimeout"}
        /\ l[i].call = "write" => l[i].data = <<CMD_BBIO, CMD_BBIO>>

\* C20: in a set_mode(target) begun while bp_mode is Text or unset,
\* enter_binmode runs first: as long as it runs only the mode-entry bytes
\* are written and bp_mode is as at entry; the call goes on to the
\* comparison with the target only after a read holding "BBIO1" has set
\* bp_mode = BinaryBase; if enter_binmode exhausts its 20 attempts the call
\* raises BusPyrateError with nothing but 20 mode-entry writes made and
\* bp_mode as at entry; set_mode(BinaryBase) returns with bp_mode =
\* BinaryBase and no selector or get-mode exchange.
C20_TextSetMode ==
    (InSetMode /\ entry_mode \in {text, None}) =>
        /\ pc \in {"set_mode", "enter_binmode"} =>
              OnlyEntryWrites(log) /\ bp_mode = entry_mode
        /\ pc = "sm_check" =>
              /\ OnlyEntryWrites(log) /\ EndsWithCall(log, "setTimeout")
              /\ Count(buf, S_BBIO1) > 0 /\ bp_mode = bbio
        /\ ~OnlyEntryWrites(log) =>
              \E i \in 1..Len(log) :
                  /\ log[i].call = "setTimeout"
                  /\ OnlyEntryWrites(SubSeq(log, 1, i))
        /\ (Ended /\ result = "BusPyrateError") =>
              /\ OnlyEntryWrites(log)
              /\ NumWrites(log, <<CMD_BBIO, CMD_BBIO>>) = 20
              /\ bp_mode = entry_mode
        /\ (Ended /\ result = "ok" /\ mode = bbio) =>
              OnlyEntryWrites(log) /\ bp_mode = bbio

\* C20 witness: a set_mode(I2C) begun with Text recorded has returned with
\* I2C recorded, after BBIO1 was read at the second mode-entry write
C20_Witness ==
    /\ op = "set_mode" /\ pc = "idle" /\ result = "ok"
    /\ entry_mode = text /\ mode = i2c /\ bp_mode = i2c
    /\ NumWrites(log, <<CMD_BBIO, CMD_BBIO>>) = 2
    /\ Writes(log)[3] = <<CMD_BBIO>>

\* C20, second case reached: with nothing recorded at entry, enter_binmode
\* exhausted its attempts inside set_mode
C20_Exhausted ==
    /\ InSetMode /\ pc = "idle" /\ result = "BusPyrateError"
    /\ entry_mode = None /\ bp_mode = None

====
